---- MODULE Spec2Model ----
(***************************************************************************)
(* Model of the person-click derived-data and integrity functions of       *)
(* personClickUtils.py and of youtubeDuration of courseAxisUtils.py.       *)
(*                                                                         *)
(* Every function of the source is a call: Init_<f> draws the arguments    *)
(* from bounded sets, the action Call_<f> runs the whole function and keeps *)
(* what the caller gets in `result`: [kind |-> "return", value |-> v] or   *)
(* [kind |-> "raise", value |-> <exception name>].                         *)
(*                                                                         *)
(* Python strings that the code inspects character by character are        *)
(* sequences of one-character strings; identifiers the code only compares  *)
(* (actor, verb, ip) are TLA+ strings; timestamps are seconds since the    *)
(* epoch (the value dateutil / pd.to_datetime parse them to).              *)
(***************************************************************************)
EXTENDS Integers, Sequences, FiniteSets, TLC

VARIABLES
    pc,                      \* "call" before the function ran, "done" after; youtubeDuration has more
    df,                      \* the DataFrame argument: a sequence of rows (records)
    course_start_datetime,   \* getStartAndEndWeeks
    gi4,                     \* getIPInfo: the loaded GeoIP database, ip -> lookup outcome
    pct,                     \* countAnonymousUserEvents
    event_type,              \* replaceHashes
    hashless,                \* replaceHashes: event_type after the first re.sub
    youtube_id,              \* youtubeDuration
    delay_secs,              \* youtubeDuration
    error,                   \* youtubeDuration: str(e) of the exception urlopen raised
    new_delay,               \* youtubeDuration: the delay computed for the retry
    result                   \* what the call gave its caller

vars == <<pc, df, course_start_datetime, gi4, pct, event_type, hashless,
          youtube_id, delay_secs, error, new_delay, result>>

\* the value of an argument or local the called function does not have
Unused == "-"

Return(v) == [kind |-> "return", value |-> v]

Raise(e) == [kind |-> "raise", value |-> e]

Pending == [kind |-> "pending", value |-> Unused]

Max(a, b) == IF a >= b THEN a ELSE b

RECURSIVE Concat(_)
\* ''.join(parts)
Concat(parts) ==
    IF parts = <<>> THEN <<>> ELSE Head(parts) \o Concat(Tail(parts))

(***************************************************************************)
(* getUniqueDiscardPatterns.replaceHashes                                  *)
(***************************************************************************)

\* character classes of the two regular expressions
Digits == {"0", "1", "2", "3", "4", "5", "6", "7", "8", "9"}

HexChars == Digits \cup {"a", "b", "c", "d", "e", "f"}

LowerChars == {"a", "b", "c", "d", "e", "f", "g", "h", "i", "j", "k", "l", "m",
               "n", "o", "p", "q", "r", "s", "t", "u", "v", "w", "x", "y", "z"}

\* the {24,32} of r'[0-9a-f]{24,32}'
HashMin == 24

HashMax == 32

HASH == <<"{", "H", "A", "S", "H", "}">>

NONHASH_ID == <<"{", "N", "O", "N", "H", "A", "S", "H", "_", "I", "D", "}">>

LECTURE_ == <<"l", "e", "c", "t", "u", "r", "e", "_">>

RECURSIVE RunLen(_, _, _, _)
\* how many characters of class C follow each other in s from position i on,
\* at most cap of them: what a greedy C{..,cap} or C+ consumes at i
RunLen(s, i, C, cap) ==
    IF cap = 0 \/ i > Len(s) \/ s[i] \notin C THEN 0
    ELSE 1 + RunLen(s, i + 1, C, cap - 1)

\* s[i:].startswith(lit)
StartsWithAt(s, i, lit) ==
    /\ i + Len(lit) - 1 <= Len(s)
    /\ \A k \in 1..Len(lit) : s[i + k - 1] = lit[k]

\* HashMatch with the lower bound off by one: {23,32}
HashMatchShort(s, i) ==
    LET r == RunLen(s, i, HexChars, HashMax)
    IN  IF r >= HashMin - 1 THEN r ELSE 0

\* length of the match of [0-9a-f]{24,32} at position i, 0 when there is none
HashMatch(s, i) ==
    LET r == RunLen(s, i, HexChars, HashMax)
    IN  IF r >= HashMin THEN r ELSE 0

RECURSIVE SubHashFirst(_, _)
\* SubHash with count=1: only the leftmost match is replaced
SubHashFirst(s, i) ==
    IF i > Len(s) THEN <<>>
    ELSE LET m == HashMatch(s, i)
         IN  IF m > 0 THEN HASH \o SubSeq(s, i + m, Len(s))
             ELSE <<s[i]>> \o SubHashFirst(s, i + 1)

RECURSIVE SubHash(_, _)
\* re.sub(r'[0-9a-f]{24,32}', '{HASH}', s) from position i on: the leftmost
\* match is replaced and the scan goes on behind it
SubHash(s, i) ==
    IF i > Len(s) THEN <<>>
    ELSE LET m == HashMatch(s, i)
         IN  IF m > 0 THEN HASH \o SubHash(s, i + m)
             ELSE <<s[i]>> \o SubHash(s, i + 1)

RECURSIVE GroupsLen(_, _)
\* length of what (_[a-z]+)* consumes at position i
GroupsLen(s, i) ==
    IF i <= Len(s) /\ s[i] = "_" /\ RunLen(s, i + 1, LowerChars, Len(s)) > 0
    THEN LET g == 1 + RunLen(s, i + 1, LowerChars, Len(s))
         IN  g + GroupsLen(s, i + g)
    ELSE 0

\* length of the match of lecture_[0-9]+ at position i, 0 when there is none
LectureMatch(s, i) ==
    IF StartsWithAt(s, i, LECTURE_)
    THEN LET d == RunLen(s, i + Len(LECTURE_), Digits, Len(s))
         IN  IF d > 0 THEN Len(LECTURE_) + d ELSE 0
    ELSE 0

\* length of the match of [a-z]+_l[0-9]+(_[a-z]+)+ at position i, 0 when there
\* is none. Each greedy run is followed by a character outside its class, so
\* no shorter run can match and backtracking finds nothing more.
ComponentMatch(s, i) ==
    LET w == RunLen(s, i, LowerChars, Len(s))
        d == RunLen(s, i + w + 2, Digits, Len(s))
        g == GroupsLen(s, i + w + 2 + d)
    IN  IF /\ w > 0
           /\ StartsWithAt(s, i + w, <<"_", "l">>)
           /\ d > 0
           /\ g > 0
        THEN w + 2 + d + g
        ELSE 0

\* the alternation: the first alternative that matches at i wins
IdMatch(s, i) ==
    IF LectureMatch(s, i) > 0 THEN LectureMatch(s, i) ELSE ComponentMatch(s, i)

RECURSIVE SubId(_, _)
\* re.sub(r'(lecture_[0-9]+)|([a-z]+_l[0-9]+(_[a-z]+)+)', '{NONHASH_ID}', s)
SubId(s, i) ==
    IF i > Len(s) THEN <<>>
    ELSE LET m == IdMatch(s, i)
         IN  IF m > 0 THEN NONHASH_ID \o SubId(s, i + m)
             ELSE <<s[i]>> \o SubId(s, i + 1)

replaceHashes(s) == SubId(SubHash(s, 1), 1)

\* the pieces the event_type strings of the model are put together from
Part_play_video == <<"p", "l", "a", "y", "_", "v", "i", "d", "e", "o", "_">>

Part_digits8 == <<"0", "1", "2", "3", "4", "5", "6", "7">>

Part_hex23 == <<"a", "1", "b", "2", "c", "3", "d", "4", "e", "5", "f", "6",
                "a", "1", "b", "2", "c", "3", "d", "4", "e", "5", "f">>

Part_hex24 == <<"a", "1", "b", "2", "c", "3", "d", "4", "e", "5", "f", "6",
                "a", "1", "b", "2", "c", "3", "d", "4", "e", "5", "f", "6">>

Part_vert_l3 == <<"v", "e", "r", "t", "_", "l", "3">>

Part_poll == <<"_", "p", "o", "l", "l">>

Part_problem_HASH == <<"p", "r", "o", "b", "l", "e", "m", "_",
                       "{", "H", "A", "S", "H", "}", "_">>

EventTypeParts ==
    {Part_play_video, Part_digits8, Part_hex23, Part_hex24, LECTURE_,
     Part_vert_l3, Part_poll, Part_problem_HASH, NONHASH_ID}

\* an event_type is at most MaxParts pieces long
MaxParts == 3

\* the variables replaceHashes does not use
NotDiscard == <<df, course_start_datetime, gi4, pct, youtube_id, delay_secs,
                error, new_delay>>

Init_Discard ==
    /\ pc = "call"
    /\ \E k \in 0..MaxParts : \E parts \in [1..k -> EventTypeParts] :
          event_type = Concat(parts)
    /\ hashless = Unused
    /\ result = Pending
    /\ df = Unused /\ course_start_datetime = Unused /\ gi4 = Unused
    /\ pct = Unused /\ youtube_id = Unused /\ delay_secs = Unused
    /\ error = Unused /\ new_delay = Unused

\* df_discards.event_type.apply(replaceHashes), one element
Call_replaceHashes ==
    /\ pc = "call"
    /\ hashless' = SubHash(event_type, 1)
    /\ result' = Return(replaceHashes(event_type))
    /\ pc' = "done"
    /\ UNCHANGED <<event_type, NotDiscard>>

Next_Discard == Call_replaceHashes

Spec_Discard == Init_Discard /\ [][Next_Discard]_vars

\* C4: the normalization is idempotent: normalizing what replaceHashes
\* returned gives the same string again, no further substitution triggers.
C4_Idempotent ==
    pc = "done" => replaceHashes(result.value) = result.value

\* a call that replaced a hash and an identifier
C4_Witness ==
    /\ pc = "done"
    /\ event_type = Part_hex24 \o Part_vert_l3 \o Part_poll
    /\ result.value = HASH \o NONHASH_ID

\* the positions where a maximal block of s starts (a block: hexadecimal
\* characters only, or none), and the position behind s
BlockStarts(s) ==
    {i \in 1..(Len(s) + 1) :
        \/ i = 1
        \/ i = Len(s) + 1
        \/ (s[i] \in HexChars) # (s[i - 1] \in HexChars)}

\* the maximal blocks of s, in order
Blocks(s) ==
    LET B == BlockStarts(s)
        starts == {i \in B : i <= Len(s)}
        end(i) == CHOOSE j \in B : j > i /\ \A k \in B : k > i => j <= k
        nth[n \in 1..Cardinality(starts)] ==
            CHOOSE i \in starts : Cardinality({k \in starts : k < i}) = n - 1
    IN  [n \in 1..Cardinality(starts) |-> SubSeq(s, nth[n], end(nth[n]) - 1)]

IsHexBlock(b) == b[1] \in HexChars

\* C5: the hash pass is length-gated: a contiguous run of 24 to 32 characters
\* of 0-9a-f becomes exactly one {HASH}, a run of fewer than 24 stays as it
\* is; play_video_ and 24 hex characters give play_video_{HASH}, and a string
\* whose runs are all shorter than 24 is left unchanged.
C5_HashLengthGated ==
    pc = "done" =>
        LET bs == Blocks(event_type)
            short(b) == ~IsHexBlock(b) \/ Len(b) < 24
            gated(b) == IsHexBlock(b) /\ Len(b) >= 24 /\ Len(b) <= 32
        IN  /\ (\A n \in DOMAIN bs : short(bs[n]) \/ gated(bs[n])) =>
                    hashless = Concat([n \in DOMAIN bs |->
                                         IF gated(bs[n]) THEN HASH ELSE bs[n]])
            /\ (\A n \in DOMAIN bs : short(bs[n])) => hashless = event_type
            /\ event_type = Part_play_video \o Part_hex24 =>
                    result.value = Part_play_video \o HASH
            /\ event_type = Part_hex23 => hashless = Part_hex23

\* play_video_ followed by 24 hex characters was normalized
C5_Witness ==
    /\ pc = "done"
    /\ event_type = Part_play_video \o Part_hex24
    /\ hashless = Part_play_video \o HASH

(***************************************************************************)
(* countAnonymousUserEvents                                                *)
(***************************************************************************)

\* the missing value of a DataFrame cell (None / NaN)
NaN == "NaN"

\* Series.isnull, one element
isnull(x) == x = NaN

\* a Python float that is the quotient of two integers, kept exact
Float(n, d) == [num |-> n, den |-> d]

\* countAnonymousUserEvents with Python 2's integer division (float() left out)
countAnonymousUserEventsIntDiv(d, p) ==
    LET n_anonymous == Len(SelectSeq(d, LAMBDA row : isnull(row.actor)))
        n_total == Len(d)
    IN  IF p
        THEN IF n_total = 0 THEN Raise("ZeroDivisionError")
             ELSE Return(Float(n_anonymous \div n_total, 1))
        ELSE Return(n_anonymous)

\* countAnonymousUserEvents with the empty input guarded: 0.0 instead of the division
countAnonymousUserEventsGuarded(d, p) ==
    LET n_anonymous == Len(SelectSeq(d, LAMBDA row : isnull(row.actor)))
        n_total == Len(d)
    IN  IF p
        THEN IF n_total = 0 THEN Return(Float(0, 1))
             ELSE Return(Float(n_anonymous, n_total))
        ELSE Return(n_anonymous)

\* the conditional expression divides only when pct is true; a float division
\* by zero raises ZeroDivisionError
countAnonymousUserEvents(d, p) ==
    LET n_anonymous == Len(SelectSeq(d, LAMBDA row : isnull(row.actor)))
        n_total == Len(d)
    IN  IF p
        THEN IF n_total = 0 THEN Raise("ZeroDivisionError")
             ELSE Return(Float(n_anonymous, n_total))
        ELSE Return(n_anonymous)

\* a person-click dataset has at most MaxEvents rows here
MaxEvents == 10

AnonRows == [actor : {NaN, "u1"}]

Init_Anon ==
    /\ pc = "call"
    /\ \E k \in 0..MaxEvents : df \in [1..k -> AnonRows]
    /\ pct \in BOOLEAN
    /\ result = Pending
    /\ course_start_datetime = Unused /\ gi4 = Unused /\ event_type = Unused
    /\ hashless = Unused /\ youtube_id = Unused /\ delay_secs = Unused
    /\ error = Unused /\ new_delay = Unused

Call_countAnonymousUserEvents ==
    /\ pc = "call"
    /\ result' = countAnonymousUserEvents(df, pct)
    /\ pc' = "done"
    /\ UNCHANGED <<df, pct, course_start_datetime, gi4, event_type, hashless,
                   youtube_id, delay_secs, error, new_delay>>

Next_Anon == Call_countAnonymousUserEvents

Spec_Anon == Init_Anon /\ [][Next_Anon]_vars

\* the rows of df whose actor is missing
NullActorRows == {i \in DOMAIN df : df[i].actor = NaN}

\* C6 as stated: whenever the input has no record, the call fails with the
\* division-by-zero error, whatever pct is.
C6_EmptyAlwaysFails ==
    (pc = "done" /\ Len(df) = 0) => result = Raise("ZeroDivisionError")

\* C6 amended: whenever the input has no record, the call fails with the
\* division-by-zero error when pct is true, and returns the count 0 when pct
\* is false.
C6_EmptyFailsWhenPct ==
    (pc = "done" /\ Len(df) = 0) =>
        IF pct THEN result = Raise("ZeroDivisionError") ELSE result = Return(0)

\* the ratio of an empty dataset was asked for
C6_Witness ==
    pc = "done" /\ Len(df) = 0 /\ pct /\ result.kind = "raise"

\* C7: on a non-empty input, pct=true returns (records with missing actor) /
\* (records), a value in [0, 1], and pct=false returns the number of records
\* with missing actor; 3 of 10 give 0.3 and 3.
C7_RatioOrCount ==
    (pc = "done" /\ Len(df) > 0) =>
        /\ result.kind = "return"
        /\ IF pct
           THEN /\ result.value.den > 0
                /\ result.value.num * Len(df) =
                       Cardinality(NullActorRows) * result.value.den
                /\ 0 <= result.value.num
                /\ result.value.num <= result.value.den
                /\ (Len(df) = 10 /\ Cardinality(NullActorRows) = 3) =>
                       result.value.num * 10 = 3 * result.value.den
           ELSE /\ result.value = Cardinality(NullActorRows)
                /\ (Len(df) = 10 /\ Cardinality(NullActorRows) = 3) =>
                       result.value = 3

\* the ratio of 10 records, 3 of them anonymous
C7_Witness ==
    /\ pc = "done" /\ pct
    /\ Len(df) = 10 /\ Cardinality(NullActorRows) = 3
    /\ result.kind = "return"

(***************************************************************************)
(* getAxisLookupFails                                                      *)
(***************************************************************************)

\* a cell of the object_name column: a string, None, or the float NaN
PyStr(s) == [type |-> "str", value |-> s]

PyNone == [type |-> "NoneType", value |-> <<>>]

PyNaN == [type |-> "float", value |-> <<>>]

\* str(x): a string is itself, None is 'None', the float NaN is 'nan'
str(x) ==
    CASE x.type = "str" -> x.value
      [] x.type = "NoneType" -> <<"N", "o", "n", "e">>
      [] x.type = "float" -> <<"n", "a", "n">>

\* needle in hay, for Python strings
Contains(hay, needle) ==
    \E i \in 1..(Len(hay) - Len(needle) + 1) : StartsWithAt(hay, i, needle)

AXIS_LOOKUP_FAILED ==
    <<"A", "x", "i", "s", " ", "L", "o", "o", "k", "u", "p", " ", "F",
    "a", "i", "l", "e", "d">>

\* getAxisLookupFails comparing with == instead of testing with `in`
getAxisLookupFailsEq(d) ==
    SelectSeq(d, LAMBDA row : str(row.object_name) = AXIS_LOOKUP_FAILED)

\* df[df.object_name.apply(lambda x: 'Axis Lookup Failed' in str(x))]:
\* boolean indexing keeps the rows of the mask, in order, whole
getAxisLookupFails(d) ==
    SelectSeq(d, LAMBDA row : Contains(str(row.object_name), AXIS_LOOKUP_FAILED))

Name_embedded ==
    <<"S", "o", "m", "e", " ", "t", "e", "x", "t", " ", "A", "x", "i",
    "s", " ", "L", "o", "o", "k", "u", "p", " ", "F", "a", "i", "l", "e",
    "d", " ", "m", "o", "r", "e", " ", "t", "e", "x", "t">>

Name_truncated ==
    <<"A", "x", "i", "s", " ", "L", "o", "o", "k", "u", "p", " ", "F",
    "a", "i", "l", "e">>

Name_video ==
    <<"V", "i", "d", "e", "o", " ", "1">>

ObjectNames ==
    {PyStr(AXIS_LOOKUP_FAILED), PyStr(Name_embedded), PyStr(Name_truncated),
     PyStr(Name_video), PyNone, PyNaN}

\* a dataset has at most MaxRows rows in the specifications that look at
\* more than one column
MaxRows == 3

\* a DataFrame with columns actor and object_name and the default index
AxisFrame(a, o) ==
    [i \in DOMAIN a |-> [index |-> i, actor |-> a[i], object_name |-> o[i]]]

Init_Axis ==
    /\ pc = "call"
    /\ \E k \in 0..MaxRows :
          \E a \in [1..k -> {NaN, "u1"}], o \in [1..k -> ObjectNames] :
              df = AxisFrame(a, o)
    /\ result = Pending
    /\ pct = Unused /\ course_start_datetime = Unused /\ gi4 = Unused
    /\ event_type = Unused /\ hashless = Unused /\ youtube_id = Unused
    /\ delay_secs = Unused /\ error = Unused /\ new_delay = Unused

Call_getAxisLookupFails ==
    /\ pc = "call"
    /\ result' = Return(getAxisLookupFails(df))
    /\ pc' = "done"
    /\ UNCHANGED <<df, pct, course_start_datetime, gi4, event_type, hashless,
                   youtube_id, delay_secs, error, new_delay>>

Next_Axis == Call_getAxisLookupFails

Spec_Axis == Init_Axis /\ [][Next_Axis]_vars

\* the rows of df whose object_name is a string with the sentinel in it
SentinelRows ==
    {i \in DOMAIN df :
        /\ df[i].object_name.type = "str"
        /\ \E k \in 0..(Len(df[i].object_name.value) - Len(AXIS_LOOKUP_FAILED)) :
              SubSeq(df[i].object_name.value, k + 1, k + Len(AXIS_LOOKUP_FAILED))
                  = AXIS_LOOKUP_FAILED}

\* C9: the result holds exactly the rows of the input whose object_name has
\* 'Axis Lookup Failed' in it, in their original order, every column as it
\* was; a row whose object_name is null is never among them.
C9_AxisLookupFilter ==
    pc = "done" =>
        /\ result.kind = "return"
        /\ Len(result.value) = Cardinality(SentinelRows)
        /\ \A j \in DOMAIN result.value :
              /\ result.value[j].index \in SentinelRows
              /\ result.value[j] = df[result.value[j].index]
              /\ Cardinality({i \in SentinelRows : i < result.value[j].index}) = j - 1
              /\ result.value[j].object_name.type = "str"

\* a dataset with an embedded sentinel, a null and an ordinary name, filtered
C9_Witness ==
    /\ pc = "done"
    /\ Len(df) = 3
    /\ df[1].object_name = PyNone
    /\ df[2].object_name = PyStr(Name_embedded)
    /\ df[3].object_name = PyStr(Name_video)
    /\ Len(result.value) = 1
    /\ result.value[1] = df[2]

(***************************************************************************)
(* getStartAndEndWeeks                                                     *)
(***************************************************************************)

\* np.timedelta64(1, 'W'), in seconds
Week == 7 * 24 * 3600

\* the keys of df.groupby('actor'): rows with a missing actor are dropped
GroupKeys(d) == {d[i].actor : i \in {j \in DOMAIN d : ~isnull(d[j].actor)}}

\* the rows of actor a, by position
RowsOf(d, a) == {i \in DOMAIN d : d[i].actor = a}

\* users.first() and users.last(): the first and the last row of a group
FirstRow(d, a) == d[CHOOSE i \in RowsOf(d, a) : \A j \in RowsOf(d, a) : i <= j]

LastRow(d, a) == d[CHOOSE i \in RowsOf(d, a) : \A j \in RowsOf(d, a) : i >= j]

\* math.floor(x / y) and math.ceil(x / y) of the true quotient, y > 0
Floor(x, y) == x \div y

Ceil(x, y) == -((-x) \div y)

\* x is a time difference in seconds
determineWeek(x) ==
    IF x < 0 THEN Floor(x, Week) ELSE Ceil(x, Week) - 1

\* a DataFrame indexed by actor with the columns start_week and end_week
getStartAndEndWeeks(d, start) ==
    [a \in GroupKeys(d) |->
        LET relative_start == FirstRow(d, a).time - start
            relative_end == LastRow(d, a).time - start
        IN  [start_week |-> determineWeek(relative_start),
             end_week |-> determineWeek(relative_end)]]

\* course starts, seconds since the epoch: the epoch itself and 2013-09-18 00:00 UTC
CourseStarts == {0, 1379462400}

\* the distances to the course start the events of the model have
Offsets == {0 - Week - 1, 0 - Week, 0 - 1, 0, Week - 1, Week, 2 * Week + 1}

\* the time columns of k rows over T that are sorted
SortedTimes(T, k) ==
    {tm \in [1..k -> T] : \A i, j \in 1..k : i <= j => tm[i] <= tm[j]}

Init_Weeks ==
    /\ pc = "call"
    /\ course_start_datetime \in CourseStarts
    /\ \E k \in 0..MaxRows :
          \E a \in [1..k -> {NaN, "u1", "u2"}],
             tm \in SortedTimes({course_start_datetime + o : o \in Offsets}, k) :
              df = [i \in 1..k |-> [actor |-> a[i], time |-> tm[i]]]
    /\ result = Pending
    /\ pct = Unused /\ gi4 = Unused /\ event_type = Unused /\ hashless = Unused
    /\ youtube_id = Unused /\ delay_secs = Unused /\ error = Unused
    /\ new_delay = Unused

Call_getStartAndEndWeeks ==
    /\ pc = "call"
    /\ result' = Return(getStartAndEndWeeks(df, course_start_datetime))
    /\ pc' = "done"
    /\ UNCHANGED <<df, pct, course_start_datetime, gi4, event_type, hashless,
                   youtube_id, delay_secs, error, new_delay>>

Next_Weeks == Call_getStartAndEndWeeks

Spec_Weeks == Init_Weeks /\ [][Next_Weeks]_vars

\* the week the claim gives an event d seconds after the course start
WeekAsClaimed(d, week) ==
    /\ d = 0 => week = 0
    /\ d = 0 - 1 => week = 0 - 1
    /\ d = Week => week = 1
    /\ d = Week - 1 => week = 0
    /\ (0 <= d /\ d < Week) => week = 0
    /\ d < 0 => week < 0

\* C1: the week of an event follows its distance d to the course start: week
\* 0 at the start itself, -1 one second before, 1 seven days after, 0 at 6
\* days 23:59:59; every 0 <= d < 1 week is week 0, every d < 0 a negative week.
C1_WeekBoundaries ==
    pc = "done" =>
        \A a \in DOMAIN result.value :
            \A i \in DOMAIN df :
                /\ (df[i].actor = a /\ \A j \in DOMAIN df : df[j].actor = a => i <= j)
                      => WeekAsClaimed(df[i].time - course_start_datetime,
                                       result.value[a].start_week)
                /\ (df[i].actor = a /\ \A j \in DOMAIN df : df[j].actor = a => i >= j)
                      => WeekAsClaimed(df[i].time - course_start_datetime,
                                       result.value[a].end_week)

(***************************************************************************)
(* makePersonLevel                                                         *)
(***************************************************************************)

\* trackingLogParser.possible_verbs: the fixed vocabulary
possible_verbs == <<"play_video", "show_answer", "seek_video">>

Day == 24 * 3600

\* Timestamp.date(): the calendar date, as days since the epoch
date(time) == time \div Day

\* user_dates without the truncation to dates: distinct timestamps are counted
user_datesNoTruncation(d) ==
    [a \in GroupKeys(d) |-> Cardinality({d[i].time : i \in RowsOf(d, a)})]

\* user_dates.groupby("actor").agg(lambda x: len(x.unique())) over the dates
user_dates(d) ==
    [a \in GroupKeys(d) |-> Cardinality({date(d[i].time) : i \in RowsOf(d, a)})]

\* groupby([df["actor"], df["verb"]]).size(): one count per (actor, verb)
\* that occurs; a missing key drops the row
size(d) ==
    LET keyed == {i \in DOMAIN d : ~isnull(d[i].actor) /\ ~isnull(d[i].verb)}
    IN  [k \in {<<d[i].actor, d[i].verb>> : i \in keyed} |->
            Cardinality({i \in keyed : <<d[i].actor, d[i].verb>> = k})]

\* VerbColumns without columns=possible_verbs: the columns the pivot has, the
\* verbs that occur in the input
PivotColumns(d) == {k[2] : k \in DOMAIN size(d)}

\* the columns of pd.DataFrame(user_verbs, columns=trackingLogParser.possible_verbs)
VerbColumns(d) == {possible_verbs[n] : n \in DOMAIN possible_verbs}

\* pivot(index="actor", columns="verb", values=0), the columns taken from
\* possible_verbs, fillna(0), and the days_active column set from user_dates
makePersonLevel(d) ==
    LET user_verbs == size(d)
        index == {k[1] : k \in DOMAIN user_verbs}
    IN  [a \in index |->
            [c \in VerbColumns(d) \cup {"days_active"} |->
                IF c = "days_active" THEN user_dates(d)[a]
                ELSE IF <<a, c>> \in DOMAIN user_verbs THEN user_verbs[<<a, c>>]
                ELSE 0]]

\* a midnight (2013-09-18 00:00 UTC) and the event times around it
Midnight == 15966 * Day

PersonTimes == {Midnight - Day + 60, Midnight - 1, Midnight}

\* makePersonLevel is given at most MaxPersonRows rows; their verbs are two
\* verbs of the vocabulary and page_close, which is not in it
MaxPersonRows == 4

Init_Person ==
    /\ pc = "call"
    /\ \E k \in 0..MaxPersonRows :
          \E a \in [1..k -> {NaN, "u1", "u2"}],
             v \in [1..k -> {"play_video", "show_answer", "page_close"}],
             tm \in SortedTimes(PersonTimes, k) :
              df = [i \in 1..k |-> [actor |-> a[i], verb |-> v[i], time |-> tm[i]]]
    /\ result = Pending
    /\ pct = Unused /\ course_start_datetime = Unused /\ gi4 = Unused
    /\ event_type = Unused /\ hashless = Unused /\ youtube_id = Unused
    /\ delay_secs = Unused /\ error = Unused /\ new_delay = Unused

Call_makePersonLevel ==
    /\ pc = "call"
    /\ result' = Return(makePersonLevel(df))
    /\ pc' = "done"
    /\ UNCHANGED <<df, pct, course_start_datetime, gi4, event_type, hashless,
                   youtube_id, delay_secs, error, new_delay>>

Next_Person == Call_makePersonLevel

Spec_Person == Init_Person /\ [][Next_Person]_vars

\* the actors that appear in df
ActorsOfInput == {df[i].actor : i \in DOMAIN df} \ {NaN}

KnownVerbs == {"play_video", "show_answer", "seek_video"}

\* C2: every actor of the input has a row with exactly one column per verb of
\* the known vocabulary; column v of actor a holds the number of events of a
\* with verb v, 0 when there is none, also for a verb no event has.
C2_VerbCounts ==
    pc = "done" =>
        /\ result.kind = "return"
        /\ \A a \in ActorsOfInput :
              /\ a \in DOMAIN result.value
              /\ (DOMAIN result.value[a]) \ {"days_active"} = KnownVerbs
              /\ \A v \in KnownVerbs :
                    result.value[a][v] =
                        Cardinality({i \in DOMAIN df :
                                        df[i].actor = a /\ df[i].verb = v})

\* u1 has only play_video events, the other two verbs are filled with 0
C2_Witness ==
    /\ pc = "done"
    /\ "u1" \in DOMAIN result.value
    /\ \A i \in DOMAIN df : df[i].actor = "u1" => df[i].verb = "play_video"
    /\ result.value["u1"]["play_video"] = 1
    /\ result.value["u1"]["show_answer"] = 0
    /\ result.value["u1"]["seek_video"] = 0

\* the calendar days, since the epoch, on which actor a has an event
DaysOf(a) ==
    {n \in (15966 - 2)..(15966 + 1) :
        \E i \in DOMAIN df :
            /\ df[i].actor = a
            /\ n * Day <= df[i].time
            /\ df[i].time < (n + 1) * Day}

\* C8: days_active of an actor is the number of distinct calendar dates among
\* the actor's events, however many events fall on each date: 3 events on one
\* date and 1 on another give 2.
C8_DaysActive ==
    pc = "done" =>
        \A a \in DOMAIN result.value :
            /\ result.value[a]["days_active"] = Cardinality(DaysOf(a))
            /\ (\E n, m \in DaysOf(a) :
                   /\ n # m
                   /\ Cardinality({i \in DOMAIN df : df[i].actor = a
                                      /\ date(df[i].time) = n}) = 3
                   /\ Cardinality({i \in DOMAIN df : df[i].actor = a
                                      /\ date(df[i].time) = m}) = 1)
                  => result.value[a]["days_active"] = 2

\* u1 with 3 events on one date, at two different times, and 1 event on the next
C8_Witness ==
    /\ pc = "done"
    /\ Len(df) = 4
    /\ \A i \in DOMAIN df : df[i].actor = "u1"
    /\ df[1].time = Midnight - Day + 60
    /\ df[2].time = Midnight - 1
    /\ df[3].time = Midnight - 1
    /\ df[4].time = Midnight
    /\ result.value["u1"]["days_active"] = 2

(***************************************************************************)
(* getIPInfo                                                               *)
(***************************************************************************)

\* the Python object None, where the model holds it in a string-valued place
None == "None"

\* the time zones pytz knows, with their UTC offsets in seconds
KnownZones == {"America/New_York", "Asia/Tokyo"}

utcoffset(tz) == IF tz = "America/New_York" THEN 0 - 4 * 3600 ELSE 9 * 3600

\* the geo fields of a pygeoip record other than time_zone
GeoFields ==
    [city |-> "Cambridge", country_name |-> "United States",
     country_code |-> "US", latitude |-> 42, longitude |-> 0 - 71]

\* what gi4.record_by_addr(ip) can give: None for an address the database
\* does not hold, a record that lacks the time_zone key, or a record whose
\* time_zone is None, empty, unknown to pytz, or a zone pytz knows
NotFound == [found |-> FALSE, keys |-> {}, time_zone |-> None]

NoTimeZoneKey == [found |-> TRUE, keys |-> DOMAIN GeoFields, time_zone |-> None]

WithTimeZone(tz) ==
    [found |-> TRUE, keys |-> (DOMAIN GeoFields) \cup {"time_zone"}, time_zone |-> tz]

LookupOutcomes ==
    {NotFound, NoTimeZoneKey}
        \cup {WithTimeZone(tz) : tz \in KnownZones \cup {None, "", "Mars/Olympus_Mons"}}

\* the timestamp strings of the model: an instant, written with or without
\* the '+00:00' suffix
TimeStrings == [instant : {15966 * Day + 12 * 3600}, suffix : {"", "+00:00"}]

\* if(len(t) > 5 and t[-6:] == '+00:00'): t = t[:-6], then
\* dateutil.parser.parse(str(t)).replace(tzinfo=pytz.utc)
ParseAsUTC(t) == t.instant

\* dt.astimezone(pytz.timezone(tz)) inside try / except Exception:
\* pytz.timezone raises for None, '' and an unknown name, and the handler
\* makes local_time None
LocalTime(dt, tz) ==
    IF tz \in KnownZones
    THEN [utc |-> dt, tzname |-> tz, wall |-> dt + utcoffset(tz)]
    ELSE [utc |-> dt, tzname |-> None, wall |-> 0]

\* getInfo(time_ip_tuple): rec['time_zone'] is evaluated outside the try, so
\* it raises TypeError when rec is None and KeyError when the key is absent
getInfo(time, ip, db) ==
    LET rec == db[ip]
    IN  IF ~rec.found THEN Raise("TypeError")
        ELSE IF "time_zone" \notin rec.keys THEN Raise("KeyError")
        ELSE Return([local_time |-> LocalTime(ParseAsUTC(time), rec.time_zone)]
                        @@ GeoFields)

\* df[['time', 'ip']].apply(getInfo, axis=1): the first row that raises ends
\* the call with its exception
getIPInfo(d, db) ==
    LET rows == [i \in DOMAIN d |-> getInfo(d[i].time, d[i].ip, db)]
        raised == {i \in DOMAIN d : rows[i].kind = "raise"}
    IN  IF raised # {}
        THEN rows[CHOOSE i \in raised : \A j \in raised : i <= j]
        ELSE Return([i \in DOMAIN d |-> rows[i].value])

IPs == {"18.9.22.69", "10.0.0.1"}

Init_IP ==
    /\ pc = "call"
    /\ gi4 \in [IPs -> LookupOutcomes]
    /\ \E k \in 0..MaxRows : df \in [1..k -> [time : TimeStrings, ip : IPs]]
    /\ result = Pending
    /\ pct = Unused /\ course_start_datetime = Unused /\ event_type = Unused
    /\ hashless = Unused /\ youtube_id = Unused /\ delay_secs = Unused
    /\ error = Unused /\ new_delay = Unused

Call_getIPInfo ==
    /\ pc = "call"
    /\ result' = getIPInfo(df, gi4)
    /\ pc' = "done"
    /\ UNCHANGED <<df, pct, course_start_datetime, gi4, event_type, hashless,
                   youtube_id, delay_secs, error, new_delay>>

Next_IP == Call_getIPInfo

Spec_IP == Init_IP /\ [][Next_IP]_vars

\* the provider has no usable time zone for the address
NoUsableZone(ip) ==
    \/ ~gi4[ip].found
    \/ "time_zone" \notin gi4[ip].keys
    \/ gi4[ip].time_zone \notin KnownZones

\* C3: whenever the provider's time zone for a record's IP is missing, empty
\* or unrecognized, or the conversion fails, that record's local_time is the
\* unknown value, no exception reaches the caller, and the other records of
\* the batch are still enriched.
C3_UnknownZoneTolerated ==
    pc = "done" =>
        /\ result.kind = "return"
        /\ Len(result.value) = Len(df)
        /\ \A i \in DOMAIN df :
              NoUsableZone(df[i].ip) => result.value[i].local_time.tzname = None

(***************************************************************************)
(* youtubeDuration (courseAxisUtils.py)                                    *)
(***************************************************************************)

PyInt(n) == [type |-> "int", value |-> n]

\* str(e) of the exceptions urllib2.urlopen raises in the model
Error_403 ==
    <<"H", "T", "T", "P", " ", "E", "r", "r", "o", "r", " ", "4", "0",
    "3", ":", " ", "F", "o", "r", "b", "i", "d", "d", "e", "n">>

Error_504 ==
    <<"H", "T", "T", "P", " ", "E", "r", "r", "o", "r", " ", "5", "0",
    "4", ":", " ", "G", "a", "t", "e", "w", "a", "y", " ", "T", "i", "m",
    "e", "-", "o", "u", "t">>

Error_404 ==
    <<"H", "T", "T", "P", " ", "E", "r", "r", "o", "r", " ", "4", "0",
    "4", ":", " ", "N", "o", "t", " ", "F", "o", "u", "n", "d">>

Error_timeout ==
    <<"<", "u", "r", "l", "o", "p", "e", "n", " ", "e", "r", "r", "o",
    "r", " ", "t", "i", "m", "e", "d", " ", "o", "u", "t", ">">>

UrlopenErrors == {Error_403, Error_504, Error_404, Error_timeout}

\* "504" in error or "403" in error
IsRateLimit(e) ==
    Contains(e, <<"5", "0", "4">>) \/ Contains(e, <<"4", "0", "3">>)

\* what the server answers when urlopen succeeds: the jsonc document of the
\* video, whose data.duration is one of these
Durations == {0, 213, 3600}

\* the delays, in seconds, a caller passes are 0..MaxDelay
MaxDelay == 4

Init_Youtube ==
    /\ pc = "call"
    /\ youtube_id \in {"", "dQw4w9WgXcQ", "9bZkp7q19f0"}
    /\ delay_secs \in 0..MaxDelay
    /\ error = Unused
    /\ new_delay = Unused
    /\ result = Pending
    /\ df = Unused
    /\ pct = Unused /\ course_start_datetime = Unused /\ gi4 = Unused
    /\ event_type = Unused /\ hashless = Unused

\* the variables youtubeDuration does not use, and its arguments
NotYoutube == <<df, pct, course_start_datetime, gi4, event_type, hashless>>

\* if youtube_id is '': return None
youtubeDuration_enter ==
    /\ pc = "call"
    /\ IF youtube_id = ""
       THEN pc' = "done" /\ result' = Return(PyNone)
       ELSE pc' = "sleep" /\ UNCHANGED result
    /\ UNCHANGED <<youtube_id, delay_secs, error, new_delay, NotYoutube>>

\* sleep(delay_secs)
youtubeDuration_sleep ==
    /\ pc = "sleep"
    /\ pc' = "urlopen"
    /\ UNCHANGED <<youtube_id, delay_secs, error, new_delay, result, NotYoutube>>

\* data = urllib2.urlopen(url).read().decode("utf-8") succeeds, then
\* d = json.loads(data) and return d["data"]["duration"]
youtubeDuration_fetched ==
    /\ pc = "urlopen"
    /\ \E d \in Durations : result' = Return(PyInt(d))
    /\ pc' = "done"
    /\ UNCHANGED <<youtube_id, delay_secs, error, new_delay, NotYoutube>>

\* except Exception, e: error = str(e)
youtubeDuration_except ==
    /\ pc = "urlopen"
    /\ \E e \in UrlopenErrors : error' = e
    /\ pc' = "except"
    /\ UNCHANGED <<youtube_id, delay_secs, new_delay, result, NotYoutube>>

\* the rate-limit branch computes new_delay, prints, and then calls
\* youtube_api_duration, a name the module does not define: NameError.
\* The other branch prints and returns None.
youtubeDuration_handle ==
    /\ pc = "except"
    /\ IF IsRateLimit(error)
       THEN /\ new_delay' = Max(1, delay_secs * 2)
            /\ result' = Raise("NameError")
       ELSE /\ result' = Return(PyNone)
            /\ UNCHANGED new_delay
    /\ pc' = "done"
    /\ UNCHANGED <<youtube_id, delay_secs, error, NotYoutube>>

Next_Youtube ==
    \/ youtubeDuration_enter
    \/ youtubeDuration_sleep
    \/ youtubeDuration_fetched
    \/ youtubeDuration_except
    \/ youtubeDuration_handle

Spec_Youtube == Init_Youtube /\ [][Next_Youtube]_vars

\* C10: a fetch that fails with a rate-limit error (504 or 403 in its text)
\* is tried again for the same id with the delay max(1.0, 2 x the previous
\* delay), so no call ends on such a failure; every call ends by returning
\* the duration or None; any other failure returns None without a retry.
C10_RetryOrReturn ==
    pc = "done" =>
        /\ result.kind = "return"
        /\ result.value.type \in {"int", "NoneType"}
        /\ error # Unused => IF IsRateLimit(error) THEN FALSE
                             ELSE result.value = PyNone

====
